---- MODULE Spec2Model ----
(***************************************************************************)
(* Model of the Nova Canvas MCP server: the image store                    *)
(* (utils/image.ts: saveImage, getImage and the process-wide imageCache),  *)
(* the model invocation (utils/bedrock.ts: generateImage) and the tool     *)
(* handlers (tools/*.ts) registered with the protocol host (server.ts).    *)
(*                                                                         *)
(* Every call runs in a slot.  A slot's pc is the await point the call is  *)
(* suspended at; the actions are the synchronous runs between two await    *)
(* points, so calls in different slots interleave exactly where the        *)
(* single-threaded event loop lets them.  The console.error lines are not  *)
(* part of the state: nothing reads them.                                  *)
(***************************************************************************)
EXTENDS Naturals, Integers, Sequences, FiniteSets, TLC

\* ---------------------------------------------------------------- bounds
\* Number of identifiers crypto.randomUUID can hand out in a run.
MaxSaves == 2

\* Two calls can be in flight at the same time: every interleaving of a call
\* with another one happens between these two.
Slots == {1, 2}

\* The slots tool requests run in.
ToolSlots == {1}

\* ---------------------------------------------------------------- values
\* Contents of a Buffer.
Bytes == {"b1", "b2"}

\* The identifiers crypto.randomUUID draws from, and another string a
\* caller can hand to getImage, which names nothing.
UUIDs == {"u" \o ToString(i) : i \in 1..MaxSaves}
NamedIds == {"nope"}
Ids == UUIDs \cup NamedIds

\* const imagesDir = path.join(process.cwd(), 'images')
imagesDir == "/cwd/images"

\* path.join(imagesDir, `${imageId}.png`)
DefaultPath(imageId) == imagesDir \o "/" \o imageId \o ".png"

\* The files the model knows, with the directory path.dirname gives.
InputOk == "/tmp/in.png"
InputMissing == "/tmp/missing.png"
ExplicitNew == "/new/out.png"

DirTable ==
    [p \in {InputOk, InputMissing} |-> "/tmp"] @@
    [p \in {ExplicitNew} |-> "/new"] @@
    [p \in {DefaultPath(i) : i \in Ids} |-> imagesDir]

\* path.dirname(imagePath)
Dirname(p) == DirTable[p]

\* Buffer.toString('base64') and Buffer.from(s, 'base64').
Base64Encode(b) == "base64:" \o b
Base64Decode(s) == CHOOSE b \in Bytes : Base64Encode(b) = s

\* ------------------------------------------- tool arguments and schemas
\* A JavaScript value of a request: its type, its text and, for an array,
\* its items.
Undef == [type |-> "undefined", val |-> "", items |-> <<>>]
Str(x) == [type |-> "string", val |-> x, items |-> <<>>]
Num(x) == [type |-> "number", val |-> x, items |-> <<>>]
Bool(x) == [type |-> "boolean", val |-> IF x THEN "true" ELSE "false", items |-> <<>>]
Arr(xs) == [type |-> "array", val |-> "", items |-> xs]

\* if (v): undefined, "" , 0 and false are falsy.
Truthy(v) ==
    CASE v.type = "undefined" -> FALSE
      [] v.type = "string" -> v.val # ""
      [] v.type = "number" -> v.val # "0"
      [] v.type = "boolean" -> v.val = "true"
      [] OTHER -> TRUE

Tools ==
    {"text_to_image", "inpainting", "outpainting", "image_variation",
     "image_conditioning", "color_guided_generation", "background_removal"}

\* The parameters the model keeps: every required one, and of the optional
\* ones a string with a default (negative_prompt; control_mode and
\* outpainting_mode are declared the same way), a number with a default
\* (height; width, cfg_scale and similarity_strength are declared the same
\* way), a boolean with a default (open_browser) and a string without one
\* (reference_image_path).
Fields ==
    {"prompt", "mask_prompt", "image_path", "mask_image_path", "image_paths",
     "colors", "output_path", "reference_image_path", "negative_prompt",
     "height", "open_browser"}

NoArgs == [f \in Fields |-> Undef]
ArgsWith(r) == [f \in Fields |-> IF f \in DOMAIN r THEN r[f] ELSE Undef]

\* z.string(), z.array(z.string()), and z.X().optional().default(d)
Required(type) == [type |-> type, optional |-> FALSE, default |-> Undef]
Optional(type, d) == [type |-> type, optional |-> TRUE, default |-> d]

TextToImageSchema ==
    [prompt |-> Required("string"), output_path |-> Required("string"),
     negative_prompt |-> Optional("string", Str("")),
     height |-> Optional("number", Num("1024")),
     open_browser |-> Optional("boolean", Bool(TRUE))]

InpaintingSchema ==
    [image_path |-> Required("string"), prompt |-> Required("string"),
     mask_prompt |-> Required("string"), output_path |-> Required("string"),
     negative_prompt |-> Optional("string", Str("")),
     height |-> Optional("number", Num("512")),
     open_browser |-> Optional("boolean", Bool(TRUE))]

OutpaintingSchema ==
    [prompt |-> Required("string"), output_path |-> Required("string"),
     image_path |-> Required("string"), mask_image_path |-> Required("string"),
     negative_prompt |-> Optional("string", Str("")),
     height |-> Optional("number", Num("512")),
     open_browser |-> Optional("boolean", Bool(TRUE))]

ImageVariationSchema ==
    [image_paths |-> Required("stringArray"),
     prompt |-> Optional("string", Str("")),
     negative_prompt |-> Optional("string", Str("")),
     height |-> Optional("number", Num("512")),
     open_browser |-> Optional("boolean", Bool(FALSE)),
     output_path |-> Required("string")]

ImageConditioningSchema ==
    [image_path |-> Required("string"), prompt |-> Required("string"),
     output_path |-> Required("string"),
     negative_prompt |-> Optional("string", Str("")),
     height |-> Optional("number", Num("512")),
     open_browser |-> Optional("boolean", Bool(TRUE))]

ColorGuidedGenerationSchema ==
    [prompt |-> Required("string"), colors |-> Required("stringArray"),
     output_path |-> Required("string"),
     reference_image_path |-> Optional("string", Undef),
     negative_prompt |-> Optional("string", Str("")),
     height |-> Optional("number", Num("512")),
     open_browser |-> Optional("boolean", Bool(TRUE))]

BackgroundRemovalSchema ==
    [image_path |-> Required("string"), output_path |-> Required("string"),
     open_browser |-> Optional("boolean", Bool(TRUE))]

\* mcp.tool(name, description, Schema.shape, handler)
SchemaOf(tool) ==
    CASE tool = "text_to_image" -> TextToImageSchema
      [] tool = "inpainting" -> InpaintingSchema
      [] tool = "outpainting" -> OutpaintingSchema
      [] tool = "image_variation" -> ImageVariationSchema
      [] tool = "image_conditioning" -> ImageConditioningSchema
      [] tool = "color_guided_generation" -> ColorGuidedGenerationSchema
      [] tool = "background_removal" -> BackgroundRemovalSchema

TypeOk(type, v) ==
    CASE type = "stringArray" ->
            /\ v.type = "array"
            /\ \A i \in 1..Len(v.items) : v.items[i].type = "string"
      [] OTHER -> v.type = type

\* The mutant of FieldOk: a missing value passes for any field.
FieldOkLenient(spec, v) ==
    IF v.type = "undefined" THEN TRUE ELSE TypeOk(spec.type, v)

\* Whether a field of a schema accepts a value: a missing value only when
\* the field is optional, another value only when it has the field's type.
FieldOk(spec, v) ==
    IF v.type = "undefined" THEN spec.optional ELSE TypeOk(spec.type, v)

\* The host parses the arguments with the tool's schema before it calls the
\* handler: success needs every field accepted; the data holds the schema's
\* fields, with the default in place of a missing value.
ZodParse(schema, args) ==
    [success |-> \A f \in DOMAIN schema : FieldOk(schema[f], args[f]),
     data |-> [f \in Fields |->
                 IF f \notin DOMAIN schema THEN Undef
                 ELSE IF args[f].type = "undefined" THEN schema[f].default
                 ELSE args[f]]]

\* text_to_image reads no image file.
TextToImageInputs == <<>>

\* The image files a handler reads, in the order it reads them.
InputPaths(tool, p) ==
    CASE tool = "text_to_image" -> TextToImageInputs
      [] tool \in {"inpainting", "image_conditioning", "background_removal"} ->
            <<p.image_path.val>>
      [] tool = "outpainting" -> <<p.image_path.val, p.mask_image_path.val>>
      [] tool = "image_variation" ->
            [i \in 1..Len(p.image_paths.items) |-> p.image_paths.items[i].val]
      [] tool = "color_guided_generation" ->
            IF Truthy(p.reference_image_path)
            THEN <<p.reference_image_path.val>> ELSE <<>>

TaskType(tool) ==
    CASE tool = "text_to_image" -> "TEXT_IMAGE"
      [] tool = "inpainting" -> "INPAINTING"
      [] tool = "outpainting" -> "OUTPAINTING"
      [] tool = "image_variation" -> "IMAGE_VARIATION"
      [] tool = "image_conditioning" -> "IMAGE_CONDITIONING"
      [] tool = "color_guided_generation" -> "COLOR_GUIDED_GENERATION"
      [] tool = "background_removal" -> "BACKGROUND_REMOVAL"

\* ---------------------------------------------------------------- state
VARIABLES
    slots,      \* slot -> the call running in it
    files,      \* path -> bytes, for the files that exist
    dirs,       \* the directories that exist
    imageCache, \* imageId -> bytes: the process-wide Map
    issued,     \* identifiers crypto.randomUUID has produced so far
    returned,   \* ImageResponse + bytes of the saves that returned in this process
    prior,      \* the same, for the processes that ran before this one
    viewer      \* viewer commands started by exec and still running

vars == <<slots, files, dirs, imageCache, issued, returned, prior, viewer>>

NoResult == [outcome |-> "none", value |-> <<>>]
Return(v) == [outcome |-> "return", value |-> v]
Throw(message) == [outcome |-> "throw", value |-> message]

\* A slot no call runs in.  `received` and `response` record the response
\* body the remote model answered with.  The fields after `result` record
\* what the call has done so far: the files it tried to read, the remote
\* calls it made, the files it wrote, the directories it made, the cache
\* keys it set and whether it started the viewer.
Idle ==
    [pc |-> "idle", kind |-> "none", tool |-> "none", args |-> NoArgs,
     inputs |-> <<>>, images |-> <<>>,
     body |-> [taskType |-> "", images |-> <<>>],
     received |-> FALSE, response |-> [images |-> Undef, image |-> Undef],
     imageBytes |-> "", openBrowser |-> FALSE, outputPath |-> "",
     imageId |-> "", imagePath |-> "", data |-> "",
     result |-> NoResult,
     reads |-> <<>>, invokes |-> 0, writes |-> <<>>, mkdirs |-> <<>>,
     cacheSets |-> <<>>, fired |-> FALSE]

\* A slot is free for a new call when no call ran in it yet or the call in
\* it has ended (its result stays readable until the next call starts).
Free(s) == slots[s].pc \in {"idle", "done"}

FileExists(p) == p \in DOMAIN files
DirExists(d) == d \in dirs

\* The mutant of WriteFile: the write lands in every file there is.
WriteFileClobbering(fs, p, b) == [q \in DOMAIN fs \cup {p} |-> b]

\* writeFileAsync(p, b): the file is made or overwritten.
WriteFile(fs, p, b) == [q \in DOMAIN fs \cup {p} |-> IF q = p THEN b ELSE fs[q]]
\* The mutant of CacheSet: the entry is not inserted.
CacheSetDropped(c, id, b) == c

\* imageCache.set(id, b)
CacheSet(c, id, b) == [k \in DOMAIN c \cup {id} |-> IF k = id THEN b ELSE c[k]]

\* The identifiers a caller can know: those an ImageResponse carried, in this
\* process or an earlier one, and the names it makes up.
KnownIds == {r.imageId : r \in returned \cup prior} \cup NamedIds

\* The outputPath values a caller passes: the empty string, a path in a
\* directory that does not exist yet, and every path an earlier result
\* reported (those of the images directory among them).
OutputPaths ==
    {"", ExplicitNew} \cup {r.imagePath : r \in returned \cup prior}

Init ==
    /\ slots = [s \in Slots |-> Idle]
    /\ files = [p \in {InputOk} |-> "b1"]
    /\ dirs = {"/tmp", imagesDir}
    /\ imageCache = <<>>
    /\ issued = {}
    /\ returned = {}
    /\ prior = {}
    /\ viewer = {}

\* ------------------------------------------------------- how a call ends
\* The texts of the text_to_image handler.
TextToImageErrorPrefix == "Error occurred while generating image: "
TextToImageSuccessPrefix == "Image generated successfully. Saved location: "

ErrorPrefix(tool) ==
    CASE tool = "text_to_image" -> TextToImageErrorPrefix
      [] tool = "inpainting" -> "Error occurred during inpainting: "
      [] tool = "outpainting" -> "Error occurred during outpainting: "
      [] tool = "image_variation" -> "Error occurred during image variation: "
      [] tool = "image_conditioning" -> "Error occurred during image conditioning: "
      [] tool = "color_guided_generation" -> "Error occurred during color guided generation: "
      [] tool = "background_removal" -> "Error occurred while removing background: "

SuccessPrefix(tool) ==
    CASE tool = "text_to_image" -> TextToImageSuccessPrefix
      [] tool = "inpainting" -> "Inpainting completed successfully. Saved location: "
      [] tool = "outpainting" -> "Outpainting completed successfully. Saved location: "
      [] tool = "image_variation" -> "Image variation generated successfully. Saved location: "
      [] tool = "image_conditioning" -> "Image conditioning completed successfully. Saved location: "
      [] tool = "color_guided_generation" -> "Color guided image generated successfully. Saved location: "
      [] tool = "background_removal" -> "Background removed successfully. Saved location: "

\* { content: [ { type: "text", text: ... } ] }; the text is kept as the
\* parts the template string joins.
TextResult(parts) == [content |-> <<[type |-> "text", text |-> parts]>>]

\* The mutant of HandlerResult: the catch block rethrows.
HandlerResultRethrow(tool, outcome) ==
    IF outcome.outcome = "return"
    THEN Return(TextResult(<<SuccessPrefix(tool), outcome.value.imagePath>>))
    ELSE outcome

\* What a tool handler returns, given how its try block ended: with the
\* ImageResponse of saveImage, or with an error thrown anywhere in it.
HandlerResult(tool, outcome) ==
    IF outcome.outcome = "return"
    THEN Return(TextResult(<<SuccessPrefix(tool), outcome.value.imagePath>>))
    ELSE Return(TextResult(<<ErrorPrefix(tool)>> \o outcome.value))

\* The call in slot record c ends with `outcome` of its last storage or
\* remote step: a direct call of saveImage or getImage ends with it, a tool
\* handler turns it into its result.
Deliver(c, outcome) ==
    [c EXCEPT !.pc = "done",
              !.result = IF c.kind = "tool" THEN HandlerResult(c.tool, outcome)
                         ELSE outcome]

\* ------------------------------------------------ saveImage (image.ts)
\* A direct call saveImage(imageBytes, openBrowser, outputPath).
CallSave(s, imageBytes, openBrowser, outputPath) ==
    /\ Free(s)
    /\ slots' = [slots EXCEPT ![s] =
            [Idle EXCEPT !.pc = "saving", !.kind = "save",
                         !.imageBytes = imageBytes,
                         !.openBrowser = openBrowser,
                         !.outputPath = outputPath]]
    /\ UNCHANGED <<files, dirs, imageCache, issued, returned, prior, viewer>>

\* The mutant of randomUUID: a generator that can repeat itself.
randomUUIDRepeating(used) == UUIDs

\* crypto.randomUUID(): an identifier it has not produced before (128 random
\* bits: a repeat is treated as impossible).  The result is the set of
\* possible outcomes; the unused identifiers are interchangeable, so one of
\* them stands for all.
randomUUID(used) ==
    IF UUIDs \ used = {} THEN {} ELSE {CHOOSE u \in UUIDs \ used : TRUE}

\* The mutant of ResolvePath: the default path is always used.
ResolvePathIgnoring(outputPath, imageId) == DefaultPath(imageId)

\* outputPath || path.join(imagesDir, `${imageId}.png`)
ResolvePath(outputPath, imageId) ==
    IF outputPath # "" THEN outputPath ELSE DefaultPath(imageId)

\* saveImage up to its first await: the identifier, the path, existsSync.
SaveBegin(s) ==
    /\ slots[s].pc = "saving"
    /\ \E imageId \in randomUUID(issued) :
          LET imagePath == ResolvePath(slots[s].outputPath, imageId) IN
          /\ issued' = issued \cup {imageId}
          /\ slots' = [slots EXCEPT ![s] =
                  [@ EXCEPT !.imageId = imageId, !.imagePath = imagePath,
                            !.pc = IF ~DirExists(Dirname(imagePath))
                                   THEN "mkdir" ELSE "write"]]
    /\ UNCHANGED <<files, dirs, imageCache, returned, prior, viewer>>

\* catch (error) { console.error('Error saving image:', error); throw error; }
SaveThrows(s, message) ==
    /\ slots' = [slots EXCEPT ![s] = Deliver(@, Throw(message))]
    /\ UNCHANGED <<files, dirs, imageCache, issued, returned, prior, viewer>>

\* await mkdirAsync(dir, {recursive: true}) resolves; writeFileAsync starts.
MkdirDone(s) ==
    /\ slots[s].pc = "mkdir"
    /\ dirs' = dirs \cup {Dirname(slots[s].imagePath)}
    /\ slots' = [slots EXCEPT ![s] =
            [@ EXCEPT !.pc = "write",
                      !.mkdirs = Append(@, Dirname(slots[s].imagePath))]]
    /\ UNCHANGED <<files, imageCache, issued, returned, prior, viewer>>

\* await mkdirAsync rejects.
MkdirFail(s) ==
    /\ slots[s].pc = "mkdir"
    /\ SaveThrows(s, <<"EACCES: permission denied, mkdir ", Dirname(slots[s].imagePath)>>)

\* The file system completes writeFileAsync(imagePath, imageBytes).
WriteDone(s) ==
    /\ slots[s].pc = "write"
    /\ DirExists(Dirname(slots[s].imagePath))
    /\ files' = WriteFile(files, slots[s].imagePath, slots[s].imageBytes)
    /\ slots' = [slots EXCEPT ![s] =
            [@ EXCEPT !.pc = "written", !.writes = Append(@, slots[s].imagePath)]]
    /\ UNCHANGED <<dirs, imageCache, issued, returned, prior, viewer>>

\* The mutant of WriteFail: the cache entry is set before the write, and
\* stays when the write fails.
WriteFailCaching(s) ==
    /\ slots[s].pc = "write"
    /\ imageCache' = CacheSet(imageCache, slots[s].imageId, slots[s].imageBytes)
    /\ slots' = [slots EXCEPT ![s] =
            Deliver([@ EXCEPT !.cacheSets = Append(@, slots[s].imageId)],
                    Throw(<<"EACCES: permission denied, open ", slots[s].imagePath>>))]
    /\ UNCHANGED <<files, dirs, issued, returned, prior, viewer>>

\* await writeFileAsync rejects.
WriteFail(s) ==
    /\ slots[s].pc = "write"
    /\ SaveThrows(s, <<"EACCES: permission denied, open ", slots[s].imagePath>>)

\* { imageId, imagePath, url: `file://${imagePath}` }
ImageResponse(imageId, imagePath) ==
    [imageId |-> imageId, imagePath |-> imagePath, url |-> "file://" \o imagePath]

\* saveImage after await writeFileAsync: the cache entry, the response, the
\* viewer started by exec and not waited for, the return.
SaveResolved(s) ==
    LET c == slots[s]
        outcome == Return(ImageResponse(c.imageId, c.imagePath)) IN
    /\ c.pc = "written"
    /\ imageCache' = CacheSet(imageCache, c.imageId, c.imageBytes)
    /\ viewer' = IF c.openBrowser
                 THEN viewer \cup {[imageId |-> c.imageId, imagePath |-> c.imagePath]}
                 ELSE viewer
    /\ returned' = returned \cup
            {[imageId |-> c.imageId, imagePath |-> c.imagePath, bytes |-> c.imageBytes]}
    /\ slots' = [slots EXCEPT ![s] =
            Deliver([c EXCEPT !.cacheSets = Append(@, c.imageId),
                              !.fired = c.openBrowser], outcome)]
    /\ UNCHANGED <<files, dirs, issued, prior>>

\* The mutant of ViewerExit: a viewer that fails takes the cache entry of
\* its image with it.
ViewerExitUndoing(v, failed) ==
    /\ v \in viewer
    /\ viewer' = viewer \ {v}
    /\ imageCache' = IF failed
                     THEN [k \in DOMAIN imageCache \ {v.imageId} |-> imageCache[k]]
                     ELSE imageCache
    /\ UNCHANGED <<slots, files, dirs, issued, returned, prior>>

\* The callback of exec: the viewer command ended, with or without an error;
\* an error is written to the console and nothing else happens.
ViewerExit(v, failed) ==
    /\ v \in viewer
    /\ viewer' = viewer \ {v}
    /\ UNCHANGED <<slots, files, dirs, imageCache, issued, returned, prior>>

\* ------------------------------------------------- getImage (image.ts)
NotFound(imageId) == <<"Image ", imageId, " not found">>

\* getImage(imageId) up to its await: a cache hit returns the cached buffer,
\* a miss starts readFileAsync on the file of the images directory.
CallLoad(s, imageId) ==
    /\ Free(s)
    /\ slots' = [slots EXCEPT ![s] =
            IF imageId \in DOMAIN imageCache
            THEN [Idle EXCEPT !.pc = "done", !.kind = "load", !.imageId = imageId,
                              !.result = Return(imageCache[imageId])]
            ELSE [Idle EXCEPT !.pc = "loadRead", !.kind = "load",
                              !.imageId = imageId,
                              !.imagePath = DefaultPath(imageId)]]
    /\ UNCHANGED <<files, dirs, imageCache, issued, returned, prior, viewer>>

\* The file system completes readFileAsync(imagePath).
LoadReadDone(s) ==
    /\ slots[s].pc = "loadRead"
    /\ FileExists(slots[s].imagePath)
    /\ slots' = [slots EXCEPT ![s] =
            [@ EXCEPT !.pc = "loadGot", !.data = files[slots[s].imagePath],
                      !.reads = Append(@, slots[s].imagePath)]]
    /\ UNCHANGED <<files, dirs, imageCache, issued, returned, prior, viewer>>

\* The mutant of LoadReadFail: a failed read yields an empty image, which is
\* cached.
LoadReadFailEmpty(s) ==
    /\ slots[s].pc = "loadRead"
    /\ imageCache' = CacheSet(imageCache, slots[s].imageId, "")
    /\ slots' = [slots EXCEPT ![s] =
            [@ EXCEPT !.pc = "done", !.result = Return(""),
                      !.reads = Append(@, slots[s].imagePath)]]
    /\ UNCHANGED <<files, dirs, issued, returned, prior, viewer>>

\* await readFileAsync rejects (no such file, or an I/O error): the catch
\* block logs and throws the not-found error.
LoadReadFail(s) ==
    /\ slots[s].pc = "loadRead"
    /\ slots' = [slots EXCEPT ![s] =
            [@ EXCEPT !.pc = "done", !.result = Throw(NotFound(slots[s].imageId)),
                      !.reads = Append(@, slots[s].imagePath)]]
    /\ UNCHANGED <<files, dirs, imageCache, issued, returned, prior, viewer>>

\* The mutant of LoadResolved: the cache keeps only the image just read.
LoadResolvedEvicting(s) ==
    LET c == slots[s] IN
    /\ c.pc = "loadGot"
    /\ imageCache' = [k \in {c.imageId} |-> c.data]
    /\ slots' = [slots EXCEPT ![s] =
            [c EXCEPT !.pc = "done", !.result = Return(c.data),
                      !.cacheSets = Append(@, c.imageId)]]
    /\ UNCHANGED <<files, dirs, issued, returned, prior, viewer>>

\* getImage after await readFileAsync: the cache entry, the return.
LoadResolved(s) ==
    LET c == slots[s] IN
    /\ c.pc = "loadGot"
    /\ imageCache' = CacheSet(imageCache, c.imageId, c.data)
    /\ slots' = [slots EXCEPT ![s] =
            [c EXCEPT !.pc = "done", !.result = Return(c.data),
                      !.cacheSets = Append(@, c.imageId)]]
    /\ UNCHANGED <<files, dirs, issued, returned, prior, viewer>>


\* ------------------------------------------- generateImage (bedrock.ts)
\* The response bodies of the remote model: an object with the fields
\* `images` and `image`, each present or not.
Body(images, image) == [images |-> images, image |-> image]

Responses ==
    {Body(Arr(<<Str(Base64Encode("b1"))>>), Undef),
     Body(Arr(<<Str(Base64Encode("b2")), Str(Base64Encode("b1"))>>), Undef),
     Body(Undef, Str(Base64Encode("b1"))),
     Body(Arr(<<Str(Base64Encode("b2"))>>), Str(Base64Encode("b1"))),
     Body(Arr(<<Str("")>>), Str(Base64Encode("b2"))),
     Body(Arr(<<>>), Undef),
     Body(Undef, Str("")),
     Body(Undef, Undef)}

\* The errors client.send and JSON.parse throw.
RemoteErrors ==
    {<<"AccessDeniedException: not authorized to invoke the model">>,
     <<"Unexpected token < in JSON at position 0">>}

NoImageData == <<"No image data in response">>

\* The mutant of FirstOfImages: the last image of the list is taken.
FirstOfImagesLast(responseBody) ==
    IF responseBody.images.type = "array" /\ Len(responseBody.images.items) >= 1
    THEN responseBody.images.items[Len(responseBody.images.items)] ELSE Undef

\* responseBody.images?.[0]
FirstOfImages(responseBody) ==
    IF responseBody.images.type = "array" /\ Len(responseBody.images.items) >= 1
    THEN responseBody.images.items[1] ELSE Undef

\* The mutant of ExtractImage: an empty response yields an empty image.
ExtractImageLenient(responseBody) ==
    LET imageBase64 == IF Truthy(FirstOfImages(responseBody))
                       THEN FirstOfImages(responseBody) ELSE responseBody.image IN
    IF ~Truthy(imageBase64) THEN Return("b1")
    ELSE Return(Base64Decode(imageBase64.val))

\* const imageBase64 = responseBody.images?.[0] || responseBody.image;
\* if (!imageBase64) throw new Error('No image data in response');
\* return Buffer.from(imageBase64, 'base64');
ExtractImage(responseBody) ==
    LET imageBase64 == IF Truthy(FirstOfImages(responseBody))
                       THEN FirstOfImages(responseBody) ELSE responseBody.image IN
    IF ~Truthy(imageBase64) THEN Throw(NoImageData)
    ELSE Return(Base64Decode(imageBase64.val))

\* ------------------------------------------------ the tool handlers
Prompt == Str("a red fox")
InputFiles == {InputOk, InputMissing}

\* The arguments of the requests, without output_path and open_browser.
Cores(tool) ==
    CASE tool = "text_to_image" -> {[prompt |-> Prompt]}
      [] tool = "inpainting" ->
            {[image_path |-> Str(i), prompt |-> Prompt, mask_prompt |-> Prompt]
                : i \in InputFiles}
      [] tool = "outpainting" ->
            {[prompt |-> Prompt, image_path |-> Str(im[1]), mask_image_path |-> Str(im[2])]
                : im \in {<<InputOk, InputOk>>, <<InputOk, InputMissing>>,
                          <<InputMissing, InputOk>>}}
      [] tool = "image_variation" ->
            {[image_paths |-> Arr(l)]
                : l \in {<<>>, <<Str(InputOk)>>, <<Str(InputOk), Str(InputOk)>>,
                         <<Str(InputOk), Str(InputMissing)>>,
                         <<Str(InputMissing), Str(InputOk)>>}}
      [] tool = "image_conditioning" ->
            {[image_path |-> Str(i), prompt |-> Prompt] : i \in InputFiles}
      [] tool = "color_guided_generation" ->
            {[prompt |-> Prompt, colors |-> Arr(<<Str("#ff0000")>>),
              reference_image_path |-> r]
                : r \in {Undef, Str(""), Str(InputOk), Str(InputMissing)}}
      [] tool = "background_removal" -> {[image_path |-> Str(i)] : i \in InputFiles}

\* The well-formed requests of a tool.
GoodArgs(tool) ==
    {ArgsWith(core @@ [output_path |-> Str(o)] @@ ob)
        : core \in Cores(tool), o \in OutputPaths,
          ob \in {<<>>, [open_browser |-> Bool(FALSE)]}}

\* One well-formed request per tool, and the requests that differ from it in
\* one parameter: left out, or given with a value of another type.
PlainArgs(tool) ==
    ArgsWith((CHOOSE core \in Cores(tool) :
                 \A f \in DOMAIN core :
                    /\ core[f].val # InputMissing
                    /\ \A i \in 1..Len(core[f].items) : core[f].items[i].val # InputMissing)
             @@ [output_path |-> Str(ExplicitNew)])

OtherType(type) ==
    CASE type = "string" -> {Num("42")}
      [] type = "number" -> {Str("tall")}
      [] type = "boolean" -> {Str("yes")}
      [] type = "stringArray" -> {Str(InputOk), Arr(<<Num("42")>>)}

BadArgs(tool) ==
    {[PlainArgs(tool) EXCEPT ![f] = Undef] : f \in DOMAIN SchemaOf(tool)}
    \cup {[PlainArgs(tool) EXCEPT ![f] = v]
            : <<f, v>> \in UNION {{f} \X OtherType(SchemaOf(tool)[f].type)
                                    : f \in DOMAIN SchemaOf(tool)}}

\* The body handed to generateImage: the task type and the images read.
RequestBody(tool, images) == [taskType |-> TaskType(tool), images |-> images]

\* The host receives a tool request.  Arguments the schema rejects end the
\* request there, with the host's error.  Otherwise the handler runs up to
\* its first await: it starts reading its first image, or, with no image to
\* read, generateImage sends the request to the remote model.
CallTool(s, tool, args) ==
    LET parsed == ZodParse(SchemaOf(tool), args)
        p == parsed.data
        inputs == InputPaths(tool, p)
        c == [Idle EXCEPT !.kind = "tool", !.tool = tool, !.args = args] IN
    /\ slots[s].pc = "idle"
    /\ slots' = [slots EXCEPT ![s] =
            IF ~parsed.success
            THEN [c EXCEPT !.pc = "done",
                           !.result = [outcome |-> "invalid",
                                       value |-> <<"Invalid arguments for tool ", tool>>]]
            ELSE [c EXCEPT !.inputs = inputs,
                           !.outputPath = p.output_path.val,
                           !.openBrowser = (p.open_browser.val = "true"),
                           !.pc = IF inputs = <<>> THEN "invoking" ELSE "reading",
                           !.body = IF inputs = <<>> THEN RequestBody(tool, <<>>) ELSE @,
                           !.invokes = IF inputs = <<>> THEN 1 ELSE 0]]
    /\ UNCHANGED <<files, dirs, imageCache, issued, returned, prior, viewer>>

\* await readFile(path) resolves: the image is encoded and kept; the next
\* image is read, or, after the last one, the request is sent.
ReadInputDone(s) ==
    LET c == slots[s]
        path == c.inputs[Len(c.images) + 1]
        images == Append(c.images, Base64Encode(files[path]))
        last == Len(images) = Len(c.inputs) IN
    /\ c.pc = "reading"
    /\ FileExists(path)
    /\ slots' = [slots EXCEPT ![s] =
            [c EXCEPT !.images = images,
                      !.reads = Append(@, path),
                      !.pc = IF last THEN "invoking" ELSE "reading",
                      !.body = IF last THEN RequestBody(c.tool, images) ELSE @,
                      !.invokes = IF last THEN 1 ELSE 0]]
    /\ UNCHANGED <<files, dirs, imageCache, issued, returned, prior, viewer>>

\* The mutant of ReadInputFail: an image that cannot be read is left out and
\* the handler goes on.
ReadInputFailSkipping(s) ==
    LET c == slots[s]
        path == c.inputs[Len(c.reads) + 1]
        last == Len(c.reads) + 1 = Len(c.inputs) IN
    /\ c.pc = "reading"
    /\ slots' = [slots EXCEPT ![s] =
            [c EXCEPT !.reads = Append(@, path),
                      !.pc = IF last THEN "invoking" ELSE "reading",
                      !.body = IF last THEN [taskType |-> c.tool, images |-> c.images] ELSE @,
                      !.invokes = IF last THEN 1 ELSE 0]]
    /\ UNCHANGED <<files, dirs, imageCache, issued, returned, prior, viewer>>

\* await readFile(path) rejects: the handler's catch block returns the error.
ReadInputFail(s) ==
    LET c == slots[s]
        path == c.inputs[Len(c.images) + 1] IN
    /\ c.pc = "reading"
    /\ slots' = [slots EXCEPT ![s] =
            Deliver([c EXCEPT !.reads = Append(@, path)],
                    Throw(<<"ENOENT: no such file or directory, open ", path>>))]
    /\ UNCHANGED <<files, dirs, imageCache, issued, returned, prior, viewer>>

\* The mutant of InvokeFail: a failed remote call is made again.
InvokeFailRetrying(s, message) ==
    /\ slots[s].pc = "invoking"
    /\ slots[s].invokes < 3
    /\ slots' = [slots EXCEPT ![s] = [@ EXCEPT !.invokes = @ + 1]]
    /\ UNCHANGED <<files, dirs, imageCache, issued, returned, prior, viewer>>

\* await client.send(command) rejects, or JSON.parse throws: generateImage
\* rethrows and the handler's catch block returns the error.
InvokeFail(s, message) ==
    /\ slots[s].pc = "invoking"
    /\ slots' = [slots EXCEPT ![s] = Deliver(@, Throw(message))]
    /\ UNCHANGED <<files, dirs, imageCache, issued, returned, prior, viewer>>

\* await client.send(command) resolves with a response body: without an
\* image the handler returns the error, with one it calls saveImage.
InvokeDone(s, responseBody) ==
    LET c == slots[s]
        got == ExtractImage(responseBody) IN
    /\ c.pc = "invoking"
    /\ slots' = [slots EXCEPT ![s] =
            IF got.outcome = "throw"
            THEN Deliver([c EXCEPT !.received = TRUE, !.response = responseBody], got)
            ELSE [c EXCEPT !.pc = "saving", !.imageBytes = got.value,
                           !.received = TRUE, !.response = responseBody]]
    /\ UNCHANGED <<files, dirs, imageCache, issued, returned, prior, viewer>>

\* The host sends the result of a tool request as its response; the slot
\* is free for the next request.
Respond(s) ==
    /\ slots[s].kind = "tool"
    /\ slots[s].pc = "done"
    /\ slots' = [slots EXCEPT ![s] = Idle]
    /\ UNCHANGED <<files, dirs, imageCache, issued, returned, prior, viewer>>

\* ----------------------------------------------------------- the process
\* The process exits and is started again: the module-level Map is new and
\* every call in flight is gone; the files stay.
Restart ==
    /\ returned # {}
    /\ slots' = [s \in Slots |-> Idle]
    /\ imageCache' = <<>>
    /\ prior' = prior \cup returned
    /\ returned' = {}
    /\ viewer' = {}
    /\ UNCHANGED <<files, dirs, issued>>

\* -------------------------------------------------- the specifications
SaveStep ==
    \/ \E s \in Slots : SaveBegin(s)
    \/ \E s \in Slots : MkdirDone(s)
    \/ \E s \in Slots : MkdirFail(s)
    \/ \E s \in Slots : WriteDone(s)
    \/ \E s \in Slots : WriteFail(s)
    \/ \E s \in Slots : SaveResolved(s)

LoadStep ==
    \/ \E s \in Slots, id \in KnownIds : CallLoad(s, id)
    \/ \E s \in Slots : LoadReadDone(s)
    \/ \E s \in Slots : LoadReadFail(s)
    \/ \E s \in Slots : LoadResolved(s)

ToolStep ==
    \/ \E s \in ToolSlots :
            /\ slots[s].pc = "idle"
            /\ \E tool \in Tools :
                  \E args \in GoodArgs(tool) \cup BadArgs(tool) : CallTool(s, tool, args)
    \/ \E s \in Slots : ReadInputDone(s)
    \/ \E s \in Slots : ReadInputFail(s)
    \/ \E s \in Slots, message \in RemoteErrors : InvokeFail(s, message)
    \/ \E s \in Slots, responseBody \in Responses : InvokeDone(s, responseBody)
    \/ \E s \in Slots : Respond(s)

ViewerStep == \E v \in viewer, failed \in BOOLEAN : ViewerExit(v, failed)

\* The tool requests of the protocol host, from the request to its result.
Next == ToolStep \/ SaveStep \/ ViewerStep

Spec == Init /\ [][Next]_vars

\* The image store under direct calls of saveImage (the viewer not asked
\* for) and getImage.
StoreNext ==
    \/ \E s \in Slots, b \in Bytes, p \in OutputPaths : CallSave(s, b, FALSE, p)
    \/ SaveStep
    \/ LoadStep

StoreSpec == Init /\ [][StoreNext]_vars

\* The same, across restarts of the process.
RestartNext == StoreNext \/ Restart

RestartSpec == Init /\ [][RestartNext]_vars

\* saveImage with and without the viewer.
ViewerNext ==
    \/ \E s \in Slots, b \in Bytes, o \in BOOLEAN, p \in OutputPaths : CallSave(s, b, o, p)
    \/ SaveStep
    \/ ViewerStep

ViewerSpec == Init /\ [][ViewerNext]_vars

\* ====================================================== the image store
ReturnedIds == {r.imageId : r \in returned \cup prior}
InSave(s) == slots[s].pc \in {"mkdir", "write", "written"}

\* C1: round trip.  Every identifier a save of this process returned is in
\* the cache with exactly the bytes given to that save, so the next load of
\* it returns them; and every load of such an identifier that has ended
\* returned exactly those bytes, whatever other saves and loads ran in
\* between (saves to the same output path among them).
C1_RoundTrip ==
    /\ \A r \in returned :
          /\ r.imageId \in DOMAIN imageCache
          /\ imageCache[r.imageId] = r.bytes
    /\ \A s \in Slots :
          (slots[s].kind = "load" /\ slots[s].pc = "done") =>
             \A r \in returned :
                r.imageId = slots[s].imageId =>
                   /\ slots[s].result.outcome = "return"
                   /\ slots[s].result.value = r.bytes

\* A load has returned the bytes of a save whose file another save has
\* overwritten with other bytes since.
C1_Witness ==
    \E s \in Slots, r \in returned :
       /\ slots[s].kind = "load" /\ slots[s].pc = "done"
       /\ slots[s].imageId = r.imageId
       /\ slots[s].result.outcome = "return"
       /\ slots[s].result.value = r.bytes
       /\ files[r.imagePath] # r.bytes

\* C2: uniqueness.  The identifier of a save in progress is not one an
\* earlier save returned (in this process or before), is not a key of the
\* cache, and is not the identifier of another save in progress; and no two
\* returned records share an identifier.
C2_Unique ==
    /\ \A s \in Slots :
          InSave(s) =>
             /\ slots[s].imageId \notin ReturnedIds
             /\ slots[s].imageId \notin DOMAIN imageCache
             /\ \A t \in Slots \ {s} : InSave(t) => slots[t].imageId # slots[s].imageId
    /\ \A r1, r2 \in returned \cup prior : r1.imageId = r2.imageId => r1 = r2

\* Two saves of the same bytes to the same output path have returned, with
\* different identifiers.
C2_Witness ==
    \E r1, r2 \in returned :
       /\ r1.imageId # r2.imageId
       /\ r1.bytes = r2.bytes
       /\ r1.imagePath = r2.imagePath

\* C3: a load whose file read fails ends with the error
\* 'Image <id> not found' and leaves the cache as it was; the read fails
\* whenever the file of the images directory does not exist.
C3_NotFound ==
    [][\A s \in Slots :
          (slots[s].kind = "load" /\ slots[s].pc = "loadRead"
             /\ slots'[s].pc \notin {"loadRead", "idle"}) =>
             /\ ~FileExists(DefaultPath(slots[s].imageId)) =>
                   slots'[s].result.outcome = "throw"
             /\ slots'[s].result.outcome = "throw" =>
                   /\ slots'[s].pc = "done"
                   /\ slots'[s].result.value = NotFound(slots[s].imageId)
                   /\ imageCache' = imageCache]_vars

\* A load of an identifier that an earlier process returned for a save to an
\* explicit output path has ended with the not-found error.
C3_Witness ==
    \E s \in Slots, r \in prior :
       /\ slots[s].kind = "load" /\ slots[s].pc = "done"
       /\ slots[s].imageId = r.imageId
       /\ r.imagePath # DefaultPath(r.imageId)
       /\ slots[s].result.outcome = "throw"

\* C9, as claimed: every key of the cache maps to the bytes of the save
\* that produced that identifier.
C9_CacheHoldsSavedBytes ==
    \A id \in DOMAIN imageCache :
       \E r \in returned \cup prior : r.imageId = id /\ imageCache[id] = r.bytes

\* C10: the viewer never affects a save.  A viewer is started only in the
\* step in which a save whose write has completed sets its cache entry and
\* returns its record (the viewer still running); and the step in which a
\* viewer ends, with or without an error, changes no call's result, no file
\* and no cache entry.
C10_ViewerApart ==
    [][/\ \A v \in viewer' \ viewer :
             \E s \in Slots :
                /\ slots[s].pc = "written"
                /\ slots[s].openBrowser
                /\ slots[s].writes = <<v.imagePath>>
                /\ FileExists(v.imagePath)
                /\ v.imageId = slots[s].imageId
                /\ v.imageId \in DOMAIN imageCache'
                /\ imageCache'[v.imageId] = slots[s].imageBytes
                /\ slots'[s].pc = "done"
                /\ slots'[s].result = Return(ImageResponse(v.imageId, v.imagePath))
       /\ (viewer' \subseteq viewer /\ viewer' # viewer) =>
             /\ slots' = slots
             /\ files' = files
             /\ imageCache' = imageCache
             /\ returned' = returned]_vars

\* A save that asked for the viewer has returned and its viewer has ended.
C10_Witness ==
    \E s \in Slots :
       /\ slots[s].kind = "save" /\ slots[s].pc = "done" /\ slots[s].fired
       /\ slots[s].result.outcome = "return"
       /\ \A v \in viewer : v.imageId # slots[s].imageId
       /\ files[slots[s].imagePath] = slots[s].imageBytes
       /\ imageCache[slots[s].imageId] = slots[s].imageBytes

\* ==================================================== the tool requests
ToolCall(s) == slots[s].kind = "tool"

\* The text of a tool result.
ResultText(c) == c.result.value.content[1].text

IsTextResult(c) ==
    /\ c.result.outcome = "return"
    /\ DOMAIN c.result.value = {"content"}
    /\ Len(c.result.value.content) = 1
    /\ c.result.value.content[1].type = "text"

IsSuccess(c) == IsTextResult(c) /\ ResultText(c)[1] = SuccessPrefix(c.tool)
IsError(c) == IsTextResult(c) /\ ResultText(c)[1] = ErrorPrefix(c.tool)

\* The required parameters of the tools and the types of the parameters, as
\* the tool table states them.
C4_RequiredParams(tool) ==
    CASE tool = "text_to_image" -> {"prompt", "output_path"}
      [] tool = "inpainting" -> {"image_path", "prompt", "mask_prompt", "output_path"}
      [] tool = "outpainting" -> {"prompt", "output_path", "image_path", "mask_image_path"}
      [] tool = "image_variation" -> {"image_paths", "output_path"}
      [] tool = "image_conditioning" -> {"image_path", "prompt", "output_path"}
      [] tool = "color_guided_generation" -> {"prompt", "colors", "output_path"}
      [] tool = "background_removal" -> {"image_path", "output_path"}

C4_OptionalParams(tool) ==
    CASE tool = "color_guided_generation" ->
            {"reference_image_path", "negative_prompt", "height", "open_browser"}
      [] tool = "image_variation" -> {"prompt", "negative_prompt", "height", "open_browser"}
      [] tool = "background_removal" -> {"open_browser"}
      [] OTHER -> {"negative_prompt", "height", "open_browser"}

C4_HasType(f, v) ==
    CASE f \in {"image_paths", "colors"} ->
            /\ v.type = "array"
            /\ \A i \in 1..Len(v.items) : v.items[i].type = "string"
      [] f = "height" -> v.type = "number"
      [] f = "open_browser" -> v.type = "boolean"
      [] OTHER -> v.type = "string"

C4_Malformed(tool, args) ==
    \/ \E f \in C4_RequiredParams(tool) : args[f].type = "undefined"
    \/ \E f \in C4_RequiredParams(tool) \cup C4_OptionalParams(tool) :
          args[f].type # "undefined" /\ ~C4_HasType(f, args[f])

C6_NoUsableImage(responseBody) ==
    /\ ~(/\ responseBody.images.type = "array"
         /\ Len(responseBody.images.items) >= 1
         /\ responseBody.images.items[1].type = "string"
         /\ responseBody.images.items[1].val # "")
    /\ ~(responseBody.image.type = "string" /\ responseBody.image.val # "")

C7_Decoded(responseBody) ==
    IF /\ responseBody.images.type = "array"
       /\ Len(responseBody.images.items) >= 1
       /\ responseBody.images.items[1].val # ""
    THEN CHOOSE b \in Bytes : Base64Encode(b) = responseBody.images.items[1].val
    ELSE CHOOSE b \in Bytes : Base64Encode(b) = responseBody.image.val

C8_Messages(c) ==
    IF Len(c.reads) > Len(c.images)
    THEN {<<"ENOENT: no such file or directory, open ", c.reads[Len(c.reads)]>>}
    ELSE IF ~c.received THEN RemoteErrors
    ELSE IF c.imageBytes = "" THEN {<<"No image data in response">>}
    ELSE {<<"EACCES: permission denied, mkdir ", Dirname(c.imagePath)>>,
          <<"EACCES: permission denied, open ", c.imagePath>>}

C11_Written ==
    returned \cup
    {[imageId |-> slots[s].imageId, imagePath |-> slots[s].imagePath,
      bytes |-> slots[s].imageBytes] : s \in {t \in Slots : slots[t].pc = "written"}}

\* C11, as claimed: concurrent saves never collide.  A save whose write has
\* completed and that has not returned yet finds its file holding its
\* bytes, whatever the other save in flight has done since; and the cache
\* entry of every returned identifier holds the bytes of its save.
C11_NeverCollide ==
    /\ \A s \in Slots :
          slots[s].pc = "written" => files[slots[s].imagePath] = slots[s].imageBytes
    /\ \A r \in returned : imageCache[r.imageId] = r.bytes

\* C11, amended: the cache entries of concurrent saves never collide, and
\* neither do the files of saves that wrote different paths; two saves
\* without an output path never write the same path.
C11_NeverCollideApart ==
    /\ \A r \in returned :
          r.imageId \in DOMAIN imageCache /\ imageCache[r.imageId] = r.bytes
    /\ \A w \in C11_Written :
          (\A v \in C11_Written \ {w} : v.imagePath # w.imagePath) =>
             (FileExists(w.imagePath) /\ files[w.imagePath] = w.bytes)
    /\ \A w, v \in C11_Written :
          (/\ w # v
           /\ w.imagePath = DefaultPath(w.imageId)
           /\ v.imagePath = DefaultPath(v.imageId)) => w.imagePath # v.imagePath

\* Two saves of different bytes, neither given an output path, are in flight
\* with their writes completed.
C11_Witness ==
    \E s, t \in Slots :
       /\ s # t
       /\ slots[s].pc = "written" /\ slots[t].pc = "written"
       /\ slots[s].outputPath = "" /\ slots[t].outputPath = ""
       /\ slots[s].imageBytes # slots[t].imageBytes
       /\ files[slots[s].imagePath] = slots[s].imageBytes
       /\ files[slots[t].imagePath] = slots[t].imageBytes

\* =================================================== the request stages
\* The stage of the request in slot record c.  Validating is the step that
\* takes the request in: a request is past it, or has failed in it, in the
\* first state it is seen in.
C12_Stage(c) ==
    CASE c.pc = "idle" -> "None"
      [] c.pc = "reading" -> "ReadingInputs"
      [] c.pc = "invoking" -> "Invoking"
      [] c.pc \in {"saving", "mkdir", "write", "written"} -> "Saving"
      [] c.pc = "done" -> IF IsSuccess(c) THEN "Succeeded" ELSE "Failed"

C12_Order ==
    {<<"None", "ReadingInputs">>, <<"None", "Invoking">>, <<"None", "Failed">>,
     <<"ReadingInputs", "ReadingInputs">>, <<"ReadingInputs", "Invoking">>,
     <<"ReadingInputs", "Failed">>,
     <<"Invoking", "Saving">>, <<"Invoking", "Failed">>,
     <<"Saving", "Saving">>, <<"Saving", "Succeeded">>, <<"Saving", "Failed">>,
     <<"Succeeded", "None">>, <<"Failed", "None">>}

\* The steps of a save, each taken at most once and in this order.
C12_SaveOrder ==
    {<<"saving", "mkdir">>, <<"saving", "write">>, <<"mkdir", "write">>,
     <<"write", "written">>}

C13_LoadPure ==
    [][\A s \in Slots :
          (slots'[s] # slots[s] /\ slots'[s].kind = "load") =>
             LET c == slots[s]
                 d == slots'[s]
                 id == d.imageId IN
             /\ files' = files /\ dirs' = dirs
             /\ issued' = issued /\ returned' = returned /\ viewer' = viewer
             /\ d.invokes = 0 /\ d.writes = <<>> /\ d.mkdirs = <<>> /\ ~d.fired
             /\ (c.pc \in {"idle", "done"} /\ id \in DOMAIN imageCache) =>
                   /\ d.pc = "done"
                   /\ d.result = Return(imageCache[id])
                   /\ d.reads = <<>>
                   /\ imageCache' = imageCache
             /\ (c.pc \in {"idle", "done"} /\ id \notin DOMAIN imageCache) =>
                   (d.pc = "loadRead" /\ imageCache' = imageCache)
             /\ (c.pc = "loadRead") =>
                   /\ imageCache' = imageCache
                   /\ d.reads = <<DefaultPath(id)>>
                   /\ (d.pc = "loadGot" /\ d.data = files[DefaultPath(id)])
                         \/ (d.pc = "done" /\ d.result.outcome = "throw")
             /\ (c.pc = "loadGot") =>
                   /\ d.pc = "done"
                   /\ d.result = Return(c.data)
                   /\ DOMAIN imageCache' = DOMAIN imageCache \cup {id}
                   /\ imageCache'[id] = c.data
                   /\ \A k \in DOMAIN imageCache \ {id} : imageCache'[k] = imageCache[k]]_vars

\* A load of an identifier of an earlier process has read the file and
\* returned its bytes, and the cache holds that identifier beside another.
C13_Witness ==
    \E s \in Slots, r \in prior :
       /\ slots[s].kind = "load" /\ slots[s].pc = "done"
       /\ slots[s].imageId = r.imageId
       /\ slots[s].reads = <<DefaultPath(r.imageId)>>
       /\ slots[s].result = Return(r.bytes)
       /\ imageCache[r.imageId] = r.bytes
       /\ \E k \in DOMAIN imageCache : k # r.imageId

\* ==================================================== response decoding
\* The accepted fields of a response body that hold a usable value, in the
\* order of acceptance: the first element of `images`, then `image`.
C14_Usable(responseBody) ==
    (IF /\ responseBody.images.type = "array"
        /\ Len(responseBody.images.items) >= 1
        /\ responseBody.images.items[1].type = "string"
        /\ responseBody.images.items[1].val # ""
     THEN <<responseBody.images.items[1].val>> ELSE <<>>)
    \o (IF responseBody.image.type = "string" /\ responseBody.image.val # ""
        THEN <<responseBody.image.val>> ELSE <<>>)

C15_FailedSave ==
    [][\A s \in Slots :
          LET c == slots[s]
              d == slots'[s] IN
          (d.kind = "save") =>
             /\ (d.cacheSets # <<>>) =>
                   /\ d.cacheSets = <<d.imageId>>
                   /\ d.writes = <<d.imagePath>>
                   /\ d.pc = "done" /\ d.result.outcome = "return"
             /\ (d.imageId # "" /\ d.imageId \in DOMAIN imageCache') =>
                   (d.pc = "done" /\ d.result.outcome = "return")
             /\ (c.pc \in {"mkdir", "write"} /\ d.pc = "done" /\ d.result.outcome = "throw") =>
                   /\ imageCache' = imageCache
                   /\ returned' = returned
                   /\ viewer' = viewer
                   /\ d.result.value \in
                         {<<"EACCES: permission denied, mkdir ", Dirname(c.imagePath)>>,
                          <<"EACCES: permission denied, open ", c.imagePath>>}
             /\ (d.pc = "done" /\ d.result.outcome = "throw") =>
                   /\ d.cacheSets = <<>>
                   /\ ~d.fired
                   /\ d.imageId \notin DOMAIN imageCache'
                   /\ \A r \in returned' : r.imageId # d.imageId
                   /\ \A v \in viewer' : v.imageId # d.imageId]_vars

\* A save that asked for the viewer has failed in directory creation, after
\* another save had returned; the cache holds the entry of that other save
\* and nothing else.
C15_Witness ==
    \E s \in Slots, r \in returned :
       /\ slots[s].kind = "save" /\ slots[s].pc = "done"
       /\ slots[s].openBrowser
       /\ slots[s].result =
             Throw(<<"EACCES: permission denied, mkdir ", Dirname(ExplicitNew)>>)
       /\ DOMAIN imageCache = {r.imageId}
       /\ ~DirExists(Dirname(ExplicitNew))

\* ================================================ the files behind the cache
\* C16, as claimed: a load that found its identifier absent from the cache,
\* for an identifier a save returned and with the file that save wrote
\* still holding its bytes, has returned the saved bytes, whether or not
\* the save was given an output path (a read that failed on a file that
\* exists, an I/O error, set aside).
C16_FileBehindCache ==
    \A s \in Slots :
       (slots[s].kind = "load" /\ slots[s].pc = "done" /\ slots[s].reads # <<>>) =>
          \A r \in returned \cup prior :
             (/\ r.imageId = slots[s].imageId
              /\ FileExists(r.imagePath)
              /\ files[r.imagePath] = r.bytes) =>
                \/ slots[s].result = Return(r.bytes)
                \/ /\ slots[s].result.outcome = "throw"
                   /\ FileExists(DefaultPath(r.imageId))

====
